---- MODULE Spec2Model ----
(***************************************************************************)
(* A model of the lndev static-site build (src/main.rs): the build driver  *)
(* main, the static-asset copy, the collection builder collect_posts, the  *)
(* content parser get_post and the output writer write_file.               *)
(*                                                                         *)
(* Rust strings and paths are sequences of one-character strings; file     *)
(* contents are sequences of tokens.  Three specifications share the       *)
(* module: Spec (one run of main), SpecCollect (collect_posts as a         *)
(* function of a directory walk) and SpecLabel (the reading-time label).   *)
(***************************************************************************)
EXTENDS Integers, Sequences, FiniteSets, TLC

VARIABLES
    pc,         \* main: the statement main executes next
    exit,       \* main: "running", or the process exit status "0", "1", "101"
    fs,         \* main: the input file system (public, posts, drafts)
    i,          \* main: the index of the running for loop
    posts,      \* main: the local `posts`
    drafts,     \* main: the local `drafts`
    out,        \* main: the output tree, target path -> bytes
    trace,      \* main: history of the steps executed, in order
    c_dir,      \* collect_posts: the argument `dir`
    c_fs,       \* collect_posts: the file system it walks
    c_result,   \* collect_posts: its return value
    seconds,    \* reading time: read_time_seconds
    label       \* reading time: read_time

mainVars == <<pc, exit, fs, i, posts, drafts, out, trace>>
collectVars == <<c_dir, c_fs, c_result>>
labelVars == <<seconds, label>>
vars == <<pc, exit, fs, i, posts, drafts, out, trace, c_dir, c_fs, c_result, seconds, label>>

-----------------------------------------------------------------------------
(* Bounds of the model *)

\* longest reading duration drawn, in seconds
MaxSeconds == 200
\* entries yielded by a directory walk handed to collect_posts (SpecCollect)
MaxWalk == 3
\* entries of the walk of the posts directory in a run of main
MaxPosts == 2
\* entries of the walk of the drafts directory in a run of main
MaxDrafts == 1
\* entries of the static-assets directory in a run of main
MaxAssets == 1

-----------------------------------------------------------------------------
(* Program constants *)

ORIGIN == <<"h","t","t","p","s",":","/","/","l","n","d","e","v",".","n","l">>
OUT_DIR == <<"o","u","t">>
PUBLIC_DIR == <<"p","u","b","l","i","c">>
POSTS_DIR == <<"p","o","s","t","s">>
DRAFTS_DIR == <<"d","r","a","f","t","s">>

-----------------------------------------------------------------------------
(* str and std::path::Path *)

\* an Option<T>: <<>> is None, <<v>> is Some(v)
None == <<>>
Some(v) == <<v>>

starts_with(s, p) ==
    Len(p) <= Len(s) /\ SubSeq(s, 1, Len(p)) = p

ends_with(s, p) ==
    Len(p) <= Len(s) /\ SubSeq(s, Len(s) - Len(p) + 1, Len(s)) = p

\* the last position of character c in s, 0 when there is none
LastIndexOf(s, c) ==
    LET hits == {k \in 1..Len(s) : s[k] = c}
    IN  IF hits = {} THEN 0 ELSE CHOOSE k \in hits : \A h \in hits : h <= k

RECURSIVE trim_start_matches(_, _)
trim_start_matches(s, c) ==
    IF s # <<>> /\ Head(s) = c THEN trim_start_matches(Tail(s), c) ELSE s

\* Path::file_name: the final component
file_name(path) ==
    SubSeq(path, LastIndexOf(path, "/") + 1, Len(path))

\* Path::parent: the path without its final component
parent(path) ==
    LET k == LastIndexOf(path, "/")
    IN  IF k <= 1 THEN SubSeq(path, 1, k) ELSE SubSeq(path, 1, k - 1)

file_stem_keeps_extension(path) == file_name(path)

\* Path::file_stem: the whole name when it has no '.', or only a leading
\* one; otherwise the part before the final '.'
file_stem(path) ==
    LET name == file_name(path)
        k == LastIndexOf(name, ".")
    IN  IF k <= 1 THEN name ELSE SubSeq(name, 1, k - 1)

\* Path::extension: None when the name has no '.', or only a leading one;
\* otherwise the part after the final '.'
extension(path) ==
    LET name == file_name(path)
        k == LastIndexOf(name, ".")
    IN  IF k <= 1 THEN None ELSE Some(SubSeq(name, k + 1, Len(name)))

\* Path::join: an absolute argument replaces the base
join(base, rel) ==
    IF starts_with(rel, <<"/">>) \/ base = <<>> THEN rel
    ELSE IF base[Len(base)] = "/" THEN base \o rel
    ELSE base \o <<"/">> \o rel

-----------------------------------------------------------------------------
(* The reading-time label of get_post *)

Digit(d) ==
    CASE d = 0 -> "0" [] d = 1 -> "1" [] d = 2 -> "2" [] d = 3 -> "3"
      [] d = 4 -> "4" [] d = 5 -> "5" [] d = 6 -> "6" [] d = 7 -> "7"
      [] d = 8 -> "8" [] d = 9 -> "9"

\* format!("{}", n) of an unsigned integer
RECURSIVE Display(_)
Display(n) ==
    IF n < 10 THEN <<Digit(n)>> ELSE Display(n \div 10) \o <<Digit(n % 10)>>

SecRead == <<" ","s","e","c"," ","r","e","a","d">>
MinRead == <<" ","m","i","n"," ","r","e","a","d">>

reading_time_le(read_time_seconds) ==
    IF read_time_seconds <= 60
    THEN Display(read_time_seconds) \o SecRead
    ELSE Display(read_time_seconds \div 60) \o MinRead

reading_time(read_time_seconds) ==
    IF read_time_seconds < 60
    THEN Display(read_time_seconds) \o SecRead
    ELSE Display(read_time_seconds \div 60) \o MinRead

-----------------------------------------------------------------------------
(* The input file system *)

\* dates are strings of bytes, compared as Rust compares str
D2023_01_01 == <<50,48,50,51,45,48,49,45,48,49>>
D2023_06_01 == <<50,48,50,51,45,48,54,45,48,49>>
D2024_06_15 == <<50,48,50,52,45,48,54,45,49,53>>
D9 == <<57>>

\* One item of a directory walk together with what reading the file gives:
\* res is "err" for an Err item of the iterator; status is "io_error" when
\* the file cannot be read and "no_matter" when its front matter does not
\* decode into PostMatter (a missing title, say).
Node(res, ftype, utf8, dir, name, status, date, title) ==
    [res |-> res, ftype |-> ftype, utf8 |-> utf8, dir |-> dir, name |-> name,
     status |-> status, date |-> date, title |-> title]

File(dir, name, date, title) == Node("ok", "file", TRUE, dir, name, "ok", date, title)
NoMatterFile(dir, name) == Node("ok", "file", TRUE, dir, name, "no_matter", <<>>, "")
UnreadableFile(dir, name) == Node("ok", "file", TRUE, dir, name, "io_error", <<>>, "")
ErrItem(dir) == Node("err", "dir", TRUE, dir, <<>>, "io_error", <<>>, "")

NodePath(n) == join(n.dir, n.name)

\* the sequences without repetition, of length at most n, over set S
SeqsUpTo(S, n) ==
    {s \in UNION {[1..k -> S] : k \in 0..n} :
        \A a, b \in 1..Len(s) : a # b => s[a] # s[b]}

WalkOf(fs_, dir) ==
    IF dir = POSTS_DIR THEN fs_.posts
    ELSE IF dir = DRAFTS_DIR THEN fs_.drafts
    ELSE <<>>

\* fs::read_to_string(path): the node at that path
read_to_string(fs_, path) ==
    LET all == fs_.posts \o fs_.drafts
    IN  all[CHOOSE k \in 1..Len(all) : all[k].res = "ok" /\ NodePath(all[k]) = path]

-----------------------------------------------------------------------------
(* Content Parser: get_post *)

NoPost == [matter |-> [title |-> "", date |-> <<>>], path |-> <<>>, full_url |-> <<>>]

get_post(relative_path, fs_) ==
    LET slug == file_stem(relative_path)
        joined == parent(relative_path) \o <<"/">> \o slug
        path == IF ~starts_with(joined, <<"/">>) THEN <<"/">> \o joined ELSE joined
        full_url == ORIGIN \o path
        file_content == read_to_string(fs_, relative_path)
    IN  IF file_content.status = "io_error" THEN [kind |-> "err", post |-> NoPost]
        ELSE IF file_content.status = "no_matter" THEN [kind |-> "panic", post |-> NoPost]
        ELSE [kind |-> "ok",
              post |-> [matter |-> [title |-> file_content.title,
                                    date |-> file_content.date],
                        path |-> path,
                        full_url |-> full_url]]

-----------------------------------------------------------------------------
(* Collection Builder: collect_posts *)

\* str::cmp: lexicographic on bytes
RECURSIVE cmp(_, _)
cmp(a, b) ==
    IF a = <<>> /\ b = <<>> THEN "Equal"
    ELSE IF a = <<>> THEN "Less"
    ELSE IF b = <<>> THEN "Greater"
    ELSE IF Head(a) < Head(b) THEN "Less"
    ELSE IF Head(a) > Head(b) THEN "Greater"
    ELSE cmp(Tail(a), Tail(b))

by_date_ascending(a, b) == cmp(a.matter.date, b.matter.date)

\* the closure handed to sort_by: |a, b| b.matter.date.cmp(&a.matter.date)
by_date(a, b) == cmp(b.matter.date, a.matter.date)

\* the insertion step of the stable sort: x goes behind every element that
\* does not compare Greater than it
RECURSIVE insert_tail(_, _)
insert_tail(v, x) ==
    IF v = <<>> THEN <<x>>
    ELSE IF by_date(v[Len(v)], x) = "Greater"
         THEN insert_tail(SubSeq(v, 1, Len(v) - 1), x) \o <<v[Len(v)]>>
         ELSE v \o <<x>>

\* slice::sort_by
RECURSIVE sort_by(_)
sort_by(v) ==
    IF v = <<>> THEN <<>>
    ELSE insert_tail(sort_by(SubSeq(v, 1, Len(v) - 1)), v[Len(v)])

\* the paths collect_posts hands to get_post, in the order of the walk
content_paths(dir, fs_) ==
    LET entries == SelectSeq(WalkOf(fs_, dir), LAMBDA e : e.res = "ok")
        files == SelectSeq(entries, LAMBDA e : e.ftype = "file")
        strs == SelectSeq(files, LAMBDA e : e.utf8)
        md == SelectSeq(strs, LAMBDA e : ends_with(NodePath(e), <<".","m","d">>))
    IN  [k \in 1..Len(md) |-> NodePath(md[k])]

collect_skipping(results) ==
    LET good == SelectSeq(results, LAMBDA r : r.kind = "ok")
    IN  [kind |-> "ok", posts |-> [k \in 1..Len(good) |-> good[k].post]]

\* collect::<Result<Vec<Post>>>() over the lazy map: the first result that
\* is not Ok ends the iteration
collect_results(results) ==
    LET bad == {k \in 1..Len(results) : results[k].kind # "ok"}
    IN  IF bad = {}
        THEN [kind |-> "ok", posts |-> [k \in 1..Len(results) |-> results[k].post]]
        ELSE [kind |-> results[CHOOSE k \in bad : \A b \in bad : k <= b].kind,
              posts |-> <<>>]

collect_posts(dir, fs_) ==
    LET paths == content_paths(dir, fs_)
        results == [k \in 1..Len(paths) |-> get_post(paths[k], fs_)]
        collected == collect_results(results)
    IN  IF collected.kind # "ok" THEN collected
        ELSE [kind |-> "ok", posts |-> sort_by(collected.posts)]

-----------------------------------------------------------------------------
(* SpecLabel: the reading-time label as a function of the duration *)

LabelIdle == seconds = 0 /\ label = <<"idle">>

LabelInit == seconds \in 0..MaxSeconds /\ label = <<>>

FormatReadingTime ==
    /\ label = <<>>
    /\ label' = reading_time(seconds)
    /\ UNCHANGED <<seconds, mainVars, collectVars>>

-----------------------------------------------------------------------------
(* SpecCollect: collect_posts as a function of the walk of its directory *)

NoResult == [kind |-> "none", posts |-> <<>>]

EmptyFs == [public |-> <<>>, posts |-> <<>>, drafts |-> <<>>]

Sub(dir) == dir \o <<"/","s">>

\* the items a walk of `dir` is drawn from
WalkItems(dir) ==
    { File(dir, <<".","m","d">>, D2023_01_01, "t1"),
      File(dir, <<".","m","d",".","m","d">>, D2024_06_15, "t2"),
      File(dir, <<"a",".","m","d">>, D2023_06_01, "t3"),
      File(Sub(dir), <<"a",".","m","d">>, D2023_01_01, "t4"),
      File(dir, <<"a",".","b",".","m","d">>, D9, "t5"),
      File(dir, <<"a",".","t","x","t">>, D2023_01_01, "t6"),
      File(dir, <<"m","d">>, D2023_01_01, "t7"),
      NoMatterFile(dir, <<"b",".","m","d">>),
      UnreadableFile(dir, <<"c",".","m","d">>),
      Node("ok", "dir", TRUE, <<>>, dir, "io_error", <<>>, ""),
      Node("ok", "dir", TRUE, dir, <<"d",".","m","d">>, "io_error", <<>>, ""),
      Node("ok", "symlink", TRUE, dir, <<"l",".","m","d">>, "ok", D2023_01_01, "t8"),
      Node("ok", "file", FALSE, dir, <<"n",".","m","d">>, "ok", D2023_01_01, "t9"),
      ErrItem(dir) }

CollectIdle == c_dir = <<>> /\ c_fs = EmptyFs /\ c_result = NoResult

CollectInit ==
    /\ c_dir \in {POSTS_DIR, DRAFTS_DIR}
    /\ \E w \in SeqsUpTo(WalkItems(c_dir), MaxWalk) :
          c_fs = IF c_dir = POSTS_DIR THEN [EmptyFs EXCEPT !.posts = w]
                 ELSE [EmptyFs EXCEPT !.drafts = w]
    /\ c_result = NoResult

CollectPostsCall ==
    /\ c_result = NoResult
    /\ c_dir # <<>>
    /\ c_result' = collect_posts(c_dir, c_fs)
    /\ UNCHANGED <<c_dir, c_fs, mainVars, labelVars>>

MainIdle ==
    /\ pc = "idle" /\ exit = "running" /\ fs = EmptyFs /\ i = 0
    /\ posts = <<>> /\ drafts = <<>> /\ out = <<>> /\ trace = <<>>

InitLabel == LabelInit /\ CollectIdle /\ MainIdle
NextLabel == FormatReadingTime
SpecLabel == InitLabel /\ [][NextLabel]_vars

InitCollect == CollectInit /\ LabelIdle /\ MainIdle
NextCollect == CollectPostsCall
SpecCollect == InitCollect /\ [][NextCollect]_vars

-----------------------------------------------------------------------------
(* Page Renderer: the askama templates, as token sequences *)

RECURSIVE post_list(_)
post_list(ps) ==
    IF ps = <<>> THEN <<>>
    ELSE <<"<a>">> \o Head(ps).path \o <<" ", Head(ps).matter.title, "</a>", " ">>
         \o post_list(Tail(ps))

\* Post::render, templates/post.html
render_post(post) ==
    <<"<!doctype>", " ", "<post>", " ">> \o post.path
        \o <<" ", post.matter.title, " ", "</post>">>

\* Blog::render, templates/blog.html
render_blog(blog) ==
    <<"<!doctype>", " ", "<blog>", " ", blog.page_title, " ", blog.description, " ">>
        \o post_list(blog.posts) \o <<"</blog>">>

-----------------------------------------------------------------------------
(* Output Writer: write_file *)

Html == <<"h","t","m","l">>
IndexHtml == <<"i","n","d","e","x",".","h","t","m","l">>

\* minify_html: the external minifier, which drops the whitespace tokens
minify_html(contents) == SelectSeq(contents, LAMBDA b : b # " ")

write_file_minify_all(path, contents) ==
    [bytes |-> minify_html(contents), minified |-> TRUE]

\* what write_file hands to fs::write for `path` (paths are UTF-8 here, so
\* extension.to_str().unwrap() does not panic)
write_file(path, contents) ==
    LET ext == extension(path)
        modified == IF ext # None
                    THEN IF ext[1] = Html THEN Some(minify_html(contents)) ELSE None
                    ELSE None
    IN  IF modified # None
        THEN [bytes |-> modified[1], minified |-> TRUE]
        ELSE [bytes |-> contents, minified |-> FALSE]

-----------------------------------------------------------------------------
(* Spec: one run of main *)

\* one entry of the static-assets tree, in the order copy_dir_all meets it:
\* rel is its path below public/, and so below out/
Asset(res, rel, status, bytes) ==
    [res |-> res, rel |-> rel, status |-> status, bytes |-> bytes]

AssetItems ==
    { Asset("ok", <<"x",".","c","s","s">>, "ok", <<"a", " ", "{}">>),
      Asset("ok", <<".","h","t","m","l">>, "ok", <<"<p>", " ", "</p>">>),
      Asset("ok", <<"b","l","o","g","/">> \o IndexHtml, "ok", <<"<old>", " ", "</old>">>),
      Asset("ok", <<"y",".","c","s","s">>, "io_error", <<>>),
      Asset("err", <<>>, "io_error", <<>>) }

\* the items the walks of posts/ and drafts/ are drawn from in a run of main
MainItems(dir) ==
    { File(dir, <<".","m","d">>, D2023_01_01, "t1"),
      File(dir, <<".","m","d",".","m","d">>, D2024_06_15, "t2"),
      File(Sub(dir), <<"a",".","m","d">>, D2023_06_01, "t3"),
      NoMatterFile(dir, <<"b",".","m","d">>),
      UnreadableFile(dir, <<"c",".","m","d">>),
      ErrItem(dir) }

MainInit ==
    /\ pc = "copy_dir_all"
    /\ exit = "running"
    /\ fs \in [public : SeqsUpTo(AssetItems, MaxAssets),
               posts : SeqsUpTo(MainItems(POSTS_DIR), MaxPosts),
               drafts : SeqsUpTo(MainItems(DRAFTS_DIR), MaxDrafts)]
    /\ i = 1
    /\ posts = <<>>
    /\ drafts = <<>>
    /\ out = <<>>
    /\ trace = <<>>

question_ignored(kind, next) == [pc |-> next, exit |-> "running"]

\* the `?` after a call: Ok goes on to `next`; Err returns from main, a
\* panic unwinds out of it, and the process exits non-zero
question(kind, next) ==
    IF kind = "ok" THEN [pc |-> next, exit |-> "running"]
    ELSE [pc |-> "exited", exit |-> IF kind = "panic" THEN "101" ELSE "1"]

\* a step that writes no file
Step(step, root, kind) ==
    [step |-> step, root |-> root, kind |-> kind, path |-> <<>>,
     input |-> <<>>, bytes |-> <<>>, minified |-> FALSE]

\* the call write_file(target, contents)?, whose create_dir_all and
\* fs::write end as `io`
WriteStep(step, root, target, contents, io, next) ==
    LET w == write_file(target, contents)
        q == question(io, next)
    IN  /\ out' = IF io = "ok"
                  THEN [p \in DOMAIN out \cup {target} |->
                            IF p = target THEN w.bytes ELSE out[p]]
                  ELSE out
        /\ trace' = Append(trace,
                        [step |-> step, root |-> root, kind |-> io, path |-> target,
                         input |-> contents, bytes |-> w.bytes, minified |-> w.minified])
        /\ pc' = q.pc
        /\ exit' = q.exit

\* a step that fails before it writes
FailStep(step, root, kind, next) ==
    LET q == question(kind, next)
    IN  /\ trace' = Append(trace, Step(step, root, kind))
        /\ pc' = q.pc
        /\ exit' = q.exit
        /\ out' = out

\* copy_dir_all, one entry of the tree: read_dir, file_type, copy_file
CopyEntry ==
    /\ pc = "copy_dir_all"
    /\ i <= Len(fs.public)
    /\ LET entry == fs.public[i]
       IN  IF entry.res = "err" \/ entry.status = "io_error"
           THEN FailStep("copy", "public", "err", "copy_dir_all")
           ELSE \E io \in {"ok", "err"} :
                    WriteStep("copy", "public", join(OUT_DIR, entry.rel),
                              entry.bytes, io, "copy_dir_all")
    /\ i' = i + 1
    /\ UNCHANGED <<fs, posts, drafts, collectVars, labelVars>>

\* copy_dir_all returns Ok(())
CopyReturn ==
    /\ pc = "copy_dir_all"
    /\ i > Len(fs.public)
    /\ pc' = "collect_posts"
    /\ UNCHANGED <<exit, fs, i, posts, drafts, out, trace, collectVars, labelVars>>

\* let posts = collect_posts(POSTS_DIR)?
CollectPosts ==
    /\ pc = "collect_posts"
    /\ LET r == collect_posts(POSTS_DIR, fs)
       IN  /\ posts' = r.posts
           /\ FailStep("collect_posts", "posts", r.kind, "collect_drafts")
    /\ UNCHANGED <<fs, i, drafts, collectVars, labelVars>>

\* let drafts = collect_posts(DRAFTS_DIR)?
CollectDrafts ==
    /\ pc = "collect_drafts"
    /\ LET r == collect_posts(DRAFTS_DIR, fs)
       IN  /\ drafts' = r.posts
           /\ FailStep("collect_drafts", "drafts", r.kind, "for_post")
    /\ i' = 1
    /\ UNCHANGED <<fs, posts, collectVars, labelVars>>

\* posts.clone().into_iter().chain(drafts.clone().into_iter())
all_posts == posts \o drafts

\* Path::new(OUT_DIR).join(&post.path.trim_start_matches("/")).join("index.html")
post_target(post) ==
    join(join(OUT_DIR, trim_start_matches(post.path, "/")), IndexHtml)

\* one turn of the loop over all_posts: render, then write_file
WritePost ==
    /\ pc = "for_post"
    /\ i <= Len(all_posts)
    /\ LET post == all_posts[i]
           root == IF i <= Len(posts) THEN "posts" ELSE "drafts"
       IN  \/ FailStep("page", root, "err", "for_post")
           \/ \E io \in {"ok", "err"} :
                  WriteStep("page", root, post_target(post), render_post(post),
                            io, "for_post")
    /\ i' = i + 1
    /\ UNCHANGED <<fs, posts, drafts, collectVars, labelVars>>

\* the loop over all_posts ends
ForReturn ==
    /\ pc = "for_post"
    /\ i > Len(all_posts)
    /\ pc' = "blog"
    /\ UNCHANGED <<exit, fs, i, posts, drafts, out, trace, collectVars, labelVars>>

blog ==
    [description |-> "Where insights are shared on development on the lightning network.",
     page_title |-> "lndev - blog",
     posts |-> posts]

draft_blog ==
    [description |-> "Currently unfinished drafts",
     page_title |-> "lndev - drafts",
     posts |-> drafts]

blogdir == join(OUT_DIR, <<"b","l","o","g">>)

draftdir_blog == join(OUT_DIR, <<"b","l","o","g">>)

draftdir == join(OUT_DIR, <<"d","r","a","f","t","s">>)

\* write_file(&blogdir.join("index.html"), blog.render()?)?
WriteBlog ==
    /\ pc = "blog"
    /\ \/ FailStep("blog", "posts", "err", "draft_blog")
       \/ \E io \in {"ok", "err"} :
              WriteStep("blog", "posts", join(blogdir, IndexHtml), render_blog(blog),
                        io, "draft_blog")
    /\ UNCHANGED <<fs, i, posts, drafts, collectVars, labelVars>>

\* write_file(&draftdir.join("index.html"), draft_blog.render()?)?
WriteDraftBlog ==
    /\ pc = "draft_blog"
    /\ \/ FailStep("draft_blog", "drafts", "err", "return")
       \/ \E io \in {"ok", "err"} :
              WriteStep("draft_blog", "drafts", join(draftdir, IndexHtml),
                        render_blog(draft_blog), io, "return")
    /\ UNCHANGED <<fs, i, posts, drafts, collectVars, labelVars>>

\* Ok(())
MainReturn ==
    /\ pc = "return"
    /\ pc' = "exited"
    /\ exit' = "0"
    /\ UNCHANGED <<fs, i, posts, drafts, out, trace, collectVars, labelVars>>

Init == MainInit /\ CollectIdle /\ LabelIdle

Next ==
    \/ CopyEntry
    \/ CopyReturn
    \/ CollectPosts
    \/ CollectDrafts
    \/ WritePost
    \/ ForReturn
    \/ WriteBlog
    \/ WriteDraftBlog
    \/ MainReturn

Spec == Init /\ [][Next]_vars

-----------------------------------------------------------------------------
(* Properties *)

Range(s) == {s[k] : k \in 1..Len(s)}

\* the content files a walk yields: regular files with a UTF-8 path that
\* ends in ".md"
IsContent(n) ==
    /\ n.res = "ok" /\ n.ftype = "file" /\ n.utf8
    /\ Len(n.name) >= 3
    /\ n.name[Len(n.name) - 2] = "." /\ n.name[Len(n.name) - 1] = "m"
    /\ n.name[Len(n.name)] = "d"

IsOutput(e) == e.step \in {"page", "blog", "draft_blog"}

Written(e) == e.kind = "ok" /\ e.step \in {"copy", "page", "blog", "draft_blog"}

Rank(step) ==
    CASE step = "copy" -> 1
      [] step = "collect_posts" -> 2
      [] step = "collect_drafts" -> 3
      [] step = "page" -> 4
      [] step = "blog" -> 5
      [] step = "draft_blog" -> 6

Steps(step) == SelectSeq(trace, LAMBDA e : e.step = step)

Ran(step) == Steps(step) # <<>>

BlogTarget == <<"o","u","t","/","b","l","o","g","/">> \o IndexHtml
DraftsTarget == <<"o","u","t","/","d","r","a","f","t","s","/">> \o IndexHtml

\* <output-root>/<route_path without its leading slash>/index.html
PageTarget(post) ==
    OUT_DIR \o post.path \o <<"/">> \o IndexHtml

\* C1: the build runs copy, collect published, collect drafts, one page per
\* entry of each collection (published first), the published listing, the
\* draft listing, in that order, each stage complete before the next
\* starts; and a step that fails is the last step executed.
C1_StrictOrder ==
    /\ \A a, b \in 1..Len(trace) :
          a < b => Rank(trace[a].step) <= Rank(trace[b].step)
    /\ \A a \in 1..Len(trace) : a < Len(trace) => trace[a].kind = "ok"
    /\ \A s \in {"collect_posts", "collect_drafts", "blog", "draft_blog"} :
          Len(Steps(s)) <= 1
    /\ Len(Steps("copy")) <= Len(fs.public)
    /\ Ran("collect_posts") => Len(Steps("copy")) = Len(fs.public)
    /\ Ran("collect_drafts") => Ran("collect_posts")
    /\ Ran("page") => Ran("collect_drafts")
    /\ Len(Steps("page")) <= Len(posts) + Len(drafts)
    /\ \A k \in 1..Len(Steps("page")) :
          Steps("page")[k].kind = "ok" =>
              Steps("page")[k].path = PageTarget((posts \o drafts)[k])
    /\ Ran("blog") =>
          /\ Ran("collect_drafts")
          /\ Len(Steps("page")) = Len(posts) + Len(drafts)
    /\ Ran("draft_blog") => Ran("blog")
    /\ exit = "0" => Ran("draft_blog") /\ \A e \in Range(trace) : e.kind = "ok"
    /\ exit # "running" =>
          /\ pc = "exited"
          /\ exit # "0" => trace # <<>> /\ trace[Len(trace)].kind # "ok"

C1_Witness ==
    /\ exit = "1"
    /\ Len(trace) >= 5
    /\ trace[1].step = "copy"
    /\ trace[Len(trace) - 1].step = "page"
    /\ trace[Len(trace)].step = "page"
    /\ trace[Len(trace)].kind = "err"

\* C2: when a content file that the walk of a content root yields does not
\* decode, the build does not exit zero and no page and no listing of that
\* root is ever written.
C2_NoOutputForUndecodableRoot ==
    \A r \in {"posts", "drafts"} :
        (\E n \in Range(fs[r]) : IsContent(n) /\ n.status = "no_matter") =>
            /\ exit # "0"
            /\ \A e \in Range(trace) : ~(IsOutput(e) /\ e.root = r)

C2_Witness ==
    /\ exit = "101"
    /\ \E n \in Range(fs.drafts) : IsContent(n) /\ n.status = "no_matter"
    /\ \E e \in Range(trace) : e.step = "copy" /\ Written(e)
    /\ posts # <<>>

\* C3: exit status zero only after every write succeeded, and non-zero on
\* any read, decode, render or write failure.
C3_ExitZeroIffNoFailure ==
    exit = "0" =>
        /\ \A e \in Range(trace) : e.kind = "ok"
        /\ Len(Steps("copy")) = Len(fs.public)
        /\ Len(Steps("page")) = Len(posts) + Len(drafts)
        /\ Ran("blog") /\ Ran("draft_blog")
        /\ \A n \in Range(fs.public) \cup Range(fs.posts) \cup Range(fs.drafts) :
              n.res # "err"
        /\ \A n \in Range(fs.posts) \cup Range(fs.drafts) :
              IsContent(n) => n.status = "ok"

\* C7: after a successful build there is a page file at
\* out/<route_path>/index.html for every Page of both collections, holding
\* the minified rendering of a Page with that route, and the two listing
\* files hold the minified renderings of the two collections.
C7_OutputTree ==
    exit = "0" =>
        /\ \A k \in 1..Len(posts \o drafts) :
              LET p == (posts \o drafts)[k]
              IN  /\ PageTarget(p) \in DOMAIN out
                  /\ \E q \in Range(posts \o drafts) :
                        /\ q.path = p.path
                        /\ out[PageTarget(p)] = minify_html(render_post(q))
        /\ BlogTarget \in DOMAIN out
        /\ out[BlogTarget] = minify_html(render_blog(
              [description |-> "Where insights are shared on development on the lightning network.",
               page_title |-> "lndev - blog", posts |-> posts]))
        /\ DraftsTarget \in DOMAIN out
        /\ out[DraftsTarget] = minify_html(render_blog(
              [description |-> "Currently unfinished drafts",
               page_title |-> "lndev - drafts", posts |-> drafts]))

C7_Witness ==
    /\ exit = "0"
    /\ Len(posts) = 2
    /\ Len(drafts) = 1
    /\ posts[1].path # posts[2].path

\* the target's extension is "html": its file name is a non-empty stem
\* followed by ".html"
HasHtmlExtension(path) ==
    LET slash == {k \in 1..Len(path) : path[k] = "/"}
        name == SubSeq(path, IF slash = {} THEN 1
                             ELSE (CHOOSE k \in slash : \A h \in slash : h <= k) + 1,
                       Len(path))
    IN  /\ Len(name) > 5
        /\ SubSeq(name, Len(name) - 4, Len(name)) = <<".","h","t","m","l">>

\* C8: every write, copies of static assets included, minifies the buffer
\* if and only if the target's extension is "html", and otherwise writes
\* exactly the input bytes; the output tree holds what was written.
C8_MinifyIffHtml ==
    \A k \in 1..Len(trace) :
        LET e == trace[k]
        IN  Written(e) =>
                /\ e.minified <=> HasHtmlExtension(e.path)
                /\ HasHtmlExtension(e.path) => e.bytes = minify_html(e.input)
                /\ ~HasHtmlExtension(e.path) => e.bytes = e.input
                /\ e.path \in DOMAIN out
                /\ (\A j \in (k + 1)..Len(trace) :
                        ~(Written(trace[j]) /\ trace[j].path = e.path))
                      => out[e.path] = e.bytes

C8_Witness ==
    /\ \E e \in Range(trace) :
          /\ e.step = "copy" /\ Written(e) /\ ~e.minified
          /\ " " \in Range(e.input) /\ e.bytes = e.input
    /\ \E e \in Range(trace) :
          /\ e.step = "page" /\ Written(e) /\ e.minified /\ e.bytes # e.input

\* C10: the targets of the page and listing writes of one build are
\* pairwise distinct, so no page or listing overwrites another.
C10_DistinctTargets ==
    \A a, b \in 1..Len(trace) :
        (a < b /\ IsOutput(trace[a]) /\ IsOutput(trace[b])
               /\ Written(trace[a]) /\ Written(trace[b]))
            => trace[a].path # trace[b].path

-----------------------------------------------------------------------------
(* Properties of collect_posts (SpecCollect) *)

\* the content files of the walk collect_posts was given, in walk order
WalkContent == SelectSeq(WalkOf(c_fs, c_dir), IsContent)

Returned == c_result.kind # "none"

\* C4: when the directory traversal reports an error, collect_posts
\* returns an error and no collection.
C4_TraversalErrorPropagates ==
    (Returned /\ \E n \in Range(WalkOf(c_fs, c_dir)) : n.res = "err")
        => c_result.kind = "err"

\* a <= b as Rust compares strings: a is a prefix of b, or a has the
\* smaller byte where they first differ
StrLeq(a, b) ==
    LET diff == {k \in 1..Len(a) : k > Len(b) \/ a[k] # b[k]}
    IN  IF diff = {} THEN TRUE
        ELSE LET k == CHOOSE d \in diff : \A h \in diff : d <= h
             IN  k <= Len(b) /\ a[k] < b[k]

MatterOf(n) == [title |-> n.title, date |-> n.date]

\* C5: a successful collect_posts returns the parsed pages ordered by date
\* descending under string comparison; the pages of any one date appear in
\* the order in which the walk yielded them, so the result is a stable
\* permutation of the parsed pages.
C5_SortedStablePermutation ==
    c_result.kind = "ok" =>
        LET ps == c_result.posts
        IN  /\ Len(ps) = Len(WalkContent)
            /\ \A a, b \in 1..Len(ps) :
                  a < b => StrLeq(ps[b].matter.date, ps[a].matter.date)
            /\ \A n \in Range(WalkContent) :
                  LET got == SelectSeq(ps, LAMBDA p : p.matter.date = n.date)
                      want == SelectSeq(WalkContent, LAMBDA m : m.date = n.date)
                  IN  [k \in 1..Len(got) |-> got[k].matter]
                          = [k \in 1..Len(want) |-> MatterOf(want[k])]
            /\ [k \in 1..Len(WalkContent) |-> WalkContent[k].date]
                    = <<D2023_01_01, D2024_06_15, D2023_06_01>>
                  => [k \in 1..Len(ps) |-> ps[k].matter.date]
                        = <<D2024_06_15, D2023_06_01, D2023_01_01>>

C5_Witness ==
    /\ c_result.kind = "ok"
    /\ Len(c_result.posts) = 3
    /\ c_result.posts[1].matter.date # c_result.posts[2].matter.date
    /\ c_result.posts[2].matter.date = c_result.posts[3].matter.date
    /\ c_result.posts[2].matter.title # c_result.posts[3].matter.title
    /\ MatterOf(WalkContent[1]) = c_result.posts[2].matter
    /\ MatterOf(WalkContent[3]) = c_result.posts[3].matter

\* the file name without its final extension: a content name ends in
\* ".md", and Path::file_stem keeps the name ".md" whole
SlugOf(name) ==
    IF name = <<".","m","d">> THEN name ELSE SubSeq(name, 1, Len(name) - 3)

\* the directory of a content file relative to the content root `dir`
RelativeDir(n, dir) ==
    IF n.dir = dir THEN <<>> ELSE SubSeq(n.dir, Len(dir) + 2, Len(n.dir))

\* C6 as stated: route_path is "/" + the parent directory relative to the
\* content root + "/" + slug (read with or without the doubled slash for a
\* file directly under the root).
C6_RouteRelativeToContentRoot ==
    c_result.kind = "ok" =>
        \A p \in Range(c_result.posts) :
            /\ starts_with(p.path, <<"/">>)
            /\ \E n \in Range(WalkContent) :
                  /\ MatterOf(n) = p.matter
                  /\ \/ p.path = <<"/">> \o RelativeDir(n, c_dir) \o <<"/">> \o SlugOf(n.name)
                     \/ p.path = join(<<"/">>, join(RelativeDir(n, c_dir), SlugOf(n.name)))

\* C6, amended: route_path starts with "/" and is "/" + the parent
\* directory of the file as walked, which begins with the content root's
\* own name, + "/" + the file stem.
C6_RouteIncludesContentRoot ==
    c_result.kind = "ok" =>
        /\ Len(c_result.posts) = Len(WalkContent)
        /\ \A p \in Range(c_result.posts) :
              /\ p.path[1] = "/"
              /\ \E n \in Range(WalkContent) :
                    /\ MatterOf(n) = p.matter
                    /\ SubSeq(n.dir, 1, Len(c_dir)) = c_dir
                    /\ p.path = <<"/">> \o n.dir \o <<"/">> \o SlugOf(n.name)
                    /\ p.full_url = ORIGIN \o p.path

C6_Witness ==
    /\ c_result.kind = "ok"
    /\ c_dir = POSTS_DIR
    /\ \E p \in Range(c_result.posts) :
          p.path = <<"/","p","o","s","t","s","/","s","/","a">>
    /\ \E p \in Range(c_result.posts) :
          p.path = <<"/","p","o","s","t","s","/","a",".","b">>
    /\ \E p \in Range(c_result.posts) :
          p.path = <<"/","p","o","s","t","s","/",".","m","d">>

-----------------------------------------------------------------------------
(* Properties of the reading-time label (SpecLabel) *)

DigitValue(c) ==
    CASE c = "0" -> 0 [] c = "1" -> 1 [] c = "2" -> 2 [] c = "3" -> 3
      [] c = "4" -> 4 [] c = "5" -> 5 [] c = "6" -> 6 [] c = "7" -> 7
      [] c = "8" -> 8 [] c = "9" -> 9 [] OTHER -> -1

IsNumeral(s) ==
    /\ s # <<>>
    /\ \A k \in 1..Len(s) : DigitValue(s[k]) >= 0
    /\ Len(s) > 1 => s[1] # "0"

RECURSIVE NumeralValue(_)
NumeralValue(s) ==
    IF s = <<>> THEN 0
    ELSE 10 * NumeralValue(SubSeq(s, 1, Len(s) - 1)) + DigitValue(s[Len(s)])

\* C9: the label is "<s> sec read" for s < 60 and "<floor(s/60)> min read"
\* for s >= 60, the number written in decimal; 45, 60 and 185 seconds give
\* "45 sec read", "1 min read" and "3 min read".
C9_ReadingTimeLabel ==
    label # <<>> =>
        LET number == SubSeq(label, 1, Len(label) - 9)
            unit == SubSeq(label, Len(label) - 8, Len(label))
        IN  /\ Len(label) > 9
            /\ IsNumeral(number)
            /\ seconds < 60 =>
                  /\ unit = <<" ","s","e","c"," ","r","e","a","d">>
                  /\ NumeralValue(number) = seconds
            /\ seconds >= 60 =>
                  /\ unit = <<" ","m","i","n"," ","r","e","a","d">>
                  /\ 60 * NumeralValue(number) <= seconds
                  /\ seconds < 60 * (NumeralValue(number) + 1)
            /\ seconds = 45 =>
                  label = <<"4","5"," ","s","e","c"," ","r","e","a","d">>
            /\ seconds = 60 =>
                  label = <<"1"," ","m","i","n"," ","r","e","a","d">>
            /\ seconds = 185 =>
                  label = <<"3"," ","m","i","n"," ","r","e","a","d">>

C9_Witness ==
    /\ seconds = 185
    /\ label = <<"3"," ","m","i","n"," ","r","e","a","d">>

====
